---- MODULE Spec2Model ----
(***************************************************************************)
(* DecisionOS frontend client: the project selection flow, the Record      *)
(* Cache (state.ledger), the stateless project chat navigator, the work    *)
(* session restore and the SSE event stream client, as a state machine.    *)
(* Every async function is a flow that is suspended at its awaits; one     *)
(* action is one run-to-completion step of the browser's event loop: a     *)
(* user gesture, a response of the backend, or a message of the channel.   *)
(***************************************************************************)
EXTENDS Integers, Sequences, FiniteSets, Bags, TLC

\* ------------------------------------------------------------------ bounds
\* Requests in flight at once.
MaxFlows == 2
\* Stateless turns held or awaited at once.
MaxHistory == 3
\* Push messages handled in one run.
MaxEvents == 4
\* Work messages held at once.
MaxMessages == 3
\* Conflict messages handled in one run.
MaxConflicts == 2
\* Messages that end a turn handled in one run.
MaxCompletions == 2
\* Malformed messages received in one run.
MaxMalformed == 2

\* ------------------------------------------------------------------ values
None == "none"
Projects == {"A", "B"}
\* The order in which the backend lists the projects.
ProjectOrder == <<"A", "B">>
Turns == {"T1", "T2"}
\* Event types: the handshake and a progress event.
EventTypes == {"connected", "generating"}
\* The text of an input box: empty, blank, or one of two messages.
Texts == {"", " ", "m1", "m2"}
\* The two copies of the client in the repository. They differ in
\* renderLedger, in endWorkSession, and in how a project is picked: the
\* select element with an empty option (app.js) or the custom list with a
\* context menu that deletes (part_001).
Builds == {"app.js", "part_001"}

VARIABLES
    \* which copy of the client runs
    build,
    \* the backend
    backendProjects,        \* the projects that exist on the server
    backendLedger,          \* the records the server holds, by type
    backendMessages,        \* the messages the server holds for a session
    \* state.* of the client
    currentProject,         \* state.currentProject (its id), or None
    projects,               \* state.projects, a sequence of ids
    ledger,                 \* state.ledger: None or the snapshot of a project
    projectChatHistory,     \* state.projectChatHistory
    projectChatIndex,       \* state.projectChatIndex
    projectChatMessages,    \* what elements.projectChatMessages shows
    workSession,            \* state.workSession
    workMessages,           \* state.workMessages
    projectContextMenuTarget,
    \* the event stream client
    eventSource,            \* the channel the client refers to, or None
    detached,               \* channels still open that nothing refers to
    currentTurnId,
    notifications,          \* the tiles of elements.observabilityNotifications
    \* the scheduler
    flows,                  \* the async functions suspended at an await
    \* history
    handled,                \* the push events handled so far, in order
    \* the rest of the page
    toast,                  \* the text of the last toast shown
    currentView,            \* the .view element that is active
    ledgerFilter,           \* the .filter-btn that is active
    ledgerContent,          \* the cards of elements.ledgerContent, in order
    highlighted,            \* the id of the card that is highlighted
    workTyping,             \* typing indicators in elements.workChatMessages
    unhandled,              \* an async function has rejected, uncaught
    taskModal,              \* elements.taskModal has the class open
    currentConflictData,    \* the payload the conflict modal shows, or null
    conflictModal           \* the conflict modal has the class open

vars == <<backendProjects, currentProject, projects, ledger,
          projectChatHistory, projectChatIndex, projectChatMessages,
          workSession, workMessages, projectContextMenuTarget,
          eventSource, detached, currentTurnId, notifications,
          flows, handled, build, backendLedger, backendMessages, toast,
          currentView, ledgerFilter, ledgerContent, highlighted, workTyping,
          unhandled, taskModal, currentConflictData, conflictModal>>

backendVars == <<backendProjects>>
envVars == <<build, backendLedger, backendMessages>>
conflictVars == <<currentConflictData, conflictModal>>
viewVars == <<currentView, ledgerFilter, ledgerContent, highlighted>>
pageVars == <<toast, viewVars, workTyping, unhandled, taskModal>>
\* The page but for the toast.
quietVars == <<viewVars, workTyping, unhandled, taskModal>>
chatVars == <<projectChatHistory, projectChatIndex, projectChatMessages>>
workVars == <<workSession, workMessages>>
streamVars == <<eventSource, detached>>
logVars == <<currentTurnId, notifications, handled>>

\* ----------------------------------------------------------------- helpers
\* The ids of `ProjectOrder` that are in `S`, in that order.
RECURSIVE ListOf(_, _)
ListOf(S, order) ==
    IF order = <<>> THEN <<>>
    ELSE (IF Head(order) \in S THEN <<Head(order)>> ELSE <<>>)
         \o ListOf(S, Tail(order))

InList(p, s) == \E i \in 1..Len(s) : s[i] = p

\* JavaScript's String.prototype.trim on the modelled texts.
TrimNothing(t) == t
Trim(t) == IF t = " " THEN "" ELSE t

\* The id of the work session of project p.
SessionId(p) == IF p = "A" THEN "sA" ELSE "sB"
Session(p) ==
    [session_id |-> SessionId(p), task_description |-> "task", project |-> p]

\* A suspended async function: its name, the await it is suspended at, its
\* projectId argument, the project the pending request was issued for, the
\* session it captured, who awaits it, and its message local; for
\* navigateToMemory also its citationText and targetMemory, for
\* resolveConflict also the payload it sends.
Flow(fn, pc, projectId, req, session, caller, message) ==
    [fn |-> fn, pc |-> pc, projectId |-> projectId, req |-> req,
     session |-> session, caller |-> caller, message |-> message,
     citationText |-> <<>>,
     targetMemory |-> [id |-> <<>>, type |-> None, created_at |-> 0,
                       status |-> None],
     data |-> [existing_memory |-> [id |-> <<>>, type |-> None,
                                    created_at |-> 0, status |-> None],
               new_memory |-> [id |-> <<>>, type |-> None, created_at |-> 0,
                               status |-> None]]]

\* null, as a work session and as a ledger snapshot.
NoSession == [session_id |-> None, task_description |-> None, project |-> None]
NoLedger == [project |-> None]

\* ------------------------------------------------------------ the records
\* A record of the ledger. Ids and citation tokens are strings, modelled as
\* sequences of characters; created_at is a time, modelled as a number.
Memory(id, type, created_at, status) ==
    [id |-> id, type |-> type, created_at |-> created_at, status |-> status]
\* null, as the target of a citation.
NoMemory == [id |-> <<>>, type |-> None, created_at |-> 0, status |-> None]

\* null, as the payload of a conflict; also a payload without its records.
NoConflict == [existing_memory |-> NoMemory, new_memory |-> NoMemory]

\* The per-type collections of a ledger, in the order in which allMemories
\* spreads them (three of the nine are modelled: the first two and the last).
TypeFields == <<"decisions", "commitments", "beliefs">>

\* What the backend may hold: nothing; one decision; two decisions of which
\* the older is listed first and has an id that extends the other's, and a
\* commitment; decisions listed newest first, one of them disputed, and a
\* belief.
LedgerContents ==
    { [decisions |-> <<>>, commitments |-> <<>>, beliefs |-> <<>>],
      [decisions |-> <<Memory(<<"d", "1">>, "decision", 1, "normal")>>,
       commitments |-> <<>>, beliefs |-> <<>>],
      [decisions |-> <<Memory(<<"a", "b", "c">>, "decision", 1, "normal"),
                       Memory(<<"a", "b">>, "decision", 2, "normal")>>,
       commitments |-> <<Memory(<<"c", "d">>, "commitment", 3, "normal")>>,
       beliefs |-> <<>>],
      [decisions |-> <<Memory(<<"a", "b">>, "decision", 2, "disputed"),
                       Memory(<<"c", "d">>, "decision", 1, "normal")>>,
       commitments |-> <<>>,
       beliefs |-> <<Memory(<<"e", "f">>, "belief", 1, "normal")>>] }

DefaultLedger ==
    [decisions |-> <<Memory(<<"d", "1">>, "decision", 1, "normal")>>,
     commitments |-> <<>>, beliefs |-> <<>>]

\* allMemories of renderLedger and of navigateToMemory.
AllMemories(l) == l.decisions \o l.commitments \o l.beliefs

\* Array.prototype.sort with (a, b) => new Date(b.created_at) -
\* new Date(a.created_at): descending creation time, stable.
InsertByCreated(m, sorted) ==
    LET k == Cardinality({i \in 1..Len(sorted) :
                             sorted[i].created_at > m.created_at})
    IN  SubSeq(sorted, 1, k) \o <<m>> \o SubSeq(sorted, k + 1, Len(sorted))

RECURSIVE SortByCreated(_)
SortByCreated(memories) ==
    IF memories = <<>> THEN <<>>
    ELSE InsertByCreated(Head(memories), SortByCreated(Tail(memories)))

\* The filter buttons of the ledger view.
Filters == {"all", "disputed", "decision", "commitment"}

\* typeMap[filter] of renderLedger: the field of the ledger it names.
RenderTypeField(filter) ==
    IF filter = "decision" THEN "decisions"
    ELSE IF filter = "commitment" THEN "commitments"
    ELSE None

\* `memories` of renderLedger before the sort (l is not null).
Filtered(b, filter, l) ==
    LET NotDisputed(m) == m.status # "disputed"
        Disputed(m) == m.status = "disputed"
        byType == IF RenderTypeField(filter) = None THEN <<>>
                  ELSE l[RenderTypeField(filter)]
    IN  IF b = "part_001"
        THEN IF filter = "disputed" THEN SelectSeq(AllMemories(l), Disputed)
             ELSE IF filter = "all"
                  THEN SelectSeq(AllMemories(l), NotDisputed)
                  ELSE SelectSeq(byType, NotDisputed)
        ELSE IF filter = "all" THEN AllMemories(l) ELSE byType

\* Whether `memories` is one of the arrays of the ledger itself, so that
\* the sort reorders the ledger: app.js assigns typeMap[filter] without
\* copying it (app.js line 1155); part_001 always filters into a new array.
SortsInPlace(b, filter) ==
    b = "app.js" /\ RenderTypeField(filter) # None

\* The snapshot memoryApi.ledger returns for project p.
SnapshotOf(p) ==
    [project |-> p, decisions |-> backendLedger.decisions,
     commitments |-> backendLedger.commitments,
     beliefs |-> backendLedger.beliefs]

\* The cards of elements.ledgerContent, by the id of their record.
CardsOf(memories) == [i \in 1..Len(memories) |-> memories[i].id]

\* renderLedger(filter) on the ledger l. The cards are written anew, so
\* none of them is highlighted afterwards.
RenderLedger(filter, l) ==
    /\ highlighted' = <<>>
    /\ IF l = NoLedger
       THEN /\ ledger' = l
            /\ ledgerContent' = <<>>
       ELSE LET shown == SortByCreated(Filtered(build, filter, l))
            IN  /\ ledger' =
                       IF SortsInPlace(build, filter)
                       THEN [l EXCEPT ![RenderTypeField(filter)] = shown]
                       ELSE l
                /\ ledgerContent' = CardsOf(shown)

\* ------------------------------------------------------ citation resolver
LowerCase == <<"a", "b", "c", "d", "e", "f", "g", "h", "i", "j", "k", "l",
               "m", "n", "o", "p", "q", "r", "s", "t", "u", "v", "w", "x",
               "y", "z">>
UpperCase == <<"A", "B", "C", "D", "E", "F", "G", "H", "I", "J", "K", "L",
               "M", "N", "O", "P", "Q", "R", "S", "T", "U", "V", "W", "X",
               "Y", "Z">>
Digits == <<"0", "1", "2", "3", "4", "5", "6", "7", "8", "9">>

IndexIn(c, alphabet) ==
    IF \E i \in 1..Len(alphabet) : alphabet[i] = c
    THEN CHOOSE i \in 1..Len(alphabet) : alphabet[i] = c
    ELSE 0

\* String.prototype.toUpperCase and toLowerCase.
ToUpperCase(t) ==
    [i \in 1..Len(t) |->
        IF IndexIn(t[i], LowerCase) # 0
        THEN UpperCase[IndexIn(t[i], LowerCase)] ELSE t[i]]
ToLowerCase(t) ==
    [i \in 1..Len(t) |->
        IF IndexIn(t[i], UpperCase) # 0
        THEN LowerCase[IndexIn(t[i], UpperCase)] ELSE t[i]]

\* String.prototype.startsWith.
StartsWith(id, t) == Len(t) <= Len(id) /\ SubSeq(id, 1, Len(t)) = t

\* parseInt of a string of digits.
RECURSIVE ParseInt(_)
ParseInt(ds) ==
    IF ds = <<>> THEN 0
    ELSE 10 * ParseInt(SubSeq(ds, 1, Len(ds) - 1))
         + (IndexIn(ds[Len(ds)], Digits) - 1)

\* upperCitation.match(/^([A-Z]+)(?:-(\d+))?$/), line 1699: whether it
\* matches, and its two groups (the second empty when absent).
TypeMatch(upper) ==
    LET dashes == {i \in 1..Len(upper) : upper[i] = "-"}
        k == IF dashes = {} THEN Len(upper) + 1
             ELSE CHOOSE i \in dashes : \A j \in dashes : i <= j
        name == SubSeq(upper, 1, k - 1)
        digits == SubSeq(upper, k + 1, Len(upper))
    IN  [matched |->
             /\ name # <<>>
             /\ \A i \in 1..Len(name) : IndexIn(name[i], UpperCase) # 0
             /\ dashes # {} =>
                    /\ digits # <<>>
                    /\ \A i \in 1..Len(digits) :
                           IndexIn(digits[i], Digits) # 0,
         name |-> name, digits |-> digits]

\* typeMap[memType] of navigateToMemory, lines 1704-1716: the field of the
\* ledger the lower-case type name is a key for, None when it is no key.
TypeMapField(memType) ==
    IF memType = <<"d", "e", "c", "i", "s", "i", "o", "n">>
    THEN "decisions"
    ELSE IF memType = <<"c", "o", "m", "m", "i", "t", "m", "e", "n", "t">>
    THEN "commitments"
    ELSE IF memType = <<"b", "e", "l", "i", "e", "f">>
    THEN "beliefs"
    ELSE None

\* targetMemory of navigateToMemory on the ledger l (not null), lines
\* 1691-1721; NoMemory when nothing is found.
TargetMemory(citationText, l) ==
    LET all == AllMemories(l)
        hits == {i \in 1..Len(all) :
                    \/ all[i].id = citationText
                    \/ StartsWith(all[i].id, citationText)}
        typeMatch == TypeMatch(ToUpperCase(citationText))
        field == TypeMapField(ToLowerCase(typeMatch.name))
        memIndex == IF typeMatch.digits # <<>>
                    THEN ParseInt(typeMatch.digits) - 1 ELSE 0
    IN  IF hits # {}
        THEN all[CHOOSE i \in hits : \A j \in hits : i <= j]
        ELSE IF /\ typeMatch.matched
                /\ field # None
                /\ Len(l[field]) > memIndex
                /\ memIndex >= 0
             THEN l[field][memIndex + 1]
             ELSE NoMemory

\* The citation tokens tried: two ids of which one extends the other, an
\* id of the second type, a text that matches nothing, and type patterns
\* in either case, with and without a number.
Tokens ==
    { <<"a", "b">>, <<"a", "b", "c">>, <<"c", "d">>, <<"z", "z">>,
      <<"D", "E", "C", "I", "S", "I", "O", "N">>,
      <<"d", "e", "c", "i", "s", "i", "o", "n", "-", "2">>,
      <<"D", "E", "C", "I", "S", "I", "O", "N", "-", "0">>,
      <<"D", "E", "C", "I", "S", "I", "O", "N", "-", "3">>,
      <<"B", "E", "L", "I", "E", "F", "-", "1">>,
      <<"G", "O", "A", "L", "-", "1", "-", "2">> }

\* ------------------------------------------------------ event stream client
\* null, as an EventSource reference.
NoChannel == [project |-> None, readyState |-> "none"]
Channel(p) == [project |-> p, readyState |-> "open"]

\* EventSource.close().
CloseNothing(ch) == ch
Close(ch) == [ch EXCEPT !.readyState = "closed"]

\* The channels that still deliver messages.
OpenChannels ==
    (IF eventSource # NoChannel /\ eventSource.readyState = "open"
     THEN {eventSource} ELSE {})
    \cup {detached[i] : i \in 1..Len(detached)}

\* connectToEventStream(projectId): close the channel referred to, if any,
\* and refer to a new one. A channel left open without a reference stays
\* connected and keeps calling its onmessage handler.
ConnectToEventStream(projectId) ==
    LET old == IF eventSource # NoChannel
               THEN Close(eventSource) ELSE NoChannel
    IN  /\ eventSource' = Channel(projectId)
        /\ detached' = IF old.readyState = "open"
                       THEN Append(detached, old) ELSE detached

PipelineEvents == [event_type : EventTypes, turn_id : Turns \cup {None}]

\* handlePipelineEvent, line 147: the log is cleared when a turn id is
\* stored, the event has one, and they differ.
NeverClear(cur, ev) == FALSE
ShouldClear(cur, ev) ==
    cur # None /\ ev.turn_id # None /\ ev.turn_id # cur

\* handlePipelineEvent, line 151: currentTurnId = event.turn_id, whether or
\* not the event has a turn id (None stands for undefined).
StoredTurnIdWhenIdle(cur, ev) ==
    IF flows = EmptyBag THEN ev.turn_id ELSE cur
StoredTurnId(cur, ev) == ev.turn_id

\* The tile of an event. In part_001 the tile of conflict_detected blinks
\* and opens the conflict modal with the event's data (lines 277-283);
\* app.js has no such case.
Tile(ev, ch) ==
    IF ev.event_type = "conflict_detected" /\ build = "part_001"
    THEN [event_type |-> ev.event_type, turn_id |-> ev.turn_id,
          project |-> ch.project, data |-> ev.data, blink |-> TRUE]
    ELSE [event_type |-> ev.event_type, turn_id |-> ev.turn_id,
          project |-> ch.project]

\* The turn id and the log after handlePipelineEvent(ev) of channel ch has
\* built and appended the tile (lines 146-151 and 343).
LogAfter(ev, ch) ==
    [currentTurnId |-> StoredTurnId(currentTurnId, ev),
     notifications |-> Append(IF ShouldClear(currentTurnId, ev)
                              THEN <<>> ELSE notifications,
                              Tile(ev, ch))]

\* handlePipelineEvent(event) for an event delivered by channel ch.
HandleEveryEvent(ev, ch) ==
    /\ handled' = Append(handled, ev)
    /\ currentTurnId' = LogAfter(ev, ch).currentTurnId
    /\ notifications' = LogAfter(ev, ch).notifications
HandlePipelineEvent(ev, ch) ==
    /\ handled' = Append(handled, ev)
    /\ IF ev.event_type = "connected"
       THEN UNCHANGED <<currentTurnId, notifications>>
       ELSE /\ currentTurnId' = LogAfter(ev, ch).currentTurnId
            /\ notifications' = LogAfter(ev, ch).notifications

\* eventSource.onmessage: a message of an open channel.
OnMessage ==
    /\ Len(handled) < MaxEvents
    /\ \E ch \in OpenChannels, ev \in PipelineEvents :
           HandlePipelineEvent(ev, ch)
    /\ UNCHANGED <<backendVars, envVars, conflictVars, pageVars, currentProject, projects, ledger, chatVars,
                   workVars, projectContextMenuTarget, streamVars, flows>>

\* The payloads of conflict_detected: two proposals against the decision
\* the backend holds, and a payload without the proposed record.
Existing == Memory(<<"d", "1">>, "decision", 1, "normal")
Proposed(n) == Memory(<<"n", n>>, "decision", 2, "normal")
ConflictPayloads ==
    { [existing_memory |-> Existing, new_memory |-> Proposed("1")],
      [existing_memory |-> Existing, new_memory |-> NoMemory] }
ConflictEvents ==
    [event_type : {"conflict_detected"}, turn_id : Turns,
     data : ConflictPayloads]

\* eventSource.onmessage: a conflict_detected message of an open channel.
OnConflictMessage ==
    /\ Len(handled) < MaxConflicts
    /\ \E ch \in OpenChannels, ev \in ConflictEvents :
           HandlePipelineEvent(ev, ch)
    /\ UNCHANGED <<backendVars, envVars, conflictVars, pageVars,
                   currentProject, projects, ledger, chatVars, workVars,
                   projectContextMenuTarget, streamVars, flows>>

\* conflict_detected events whose payload lacks the existing record, or
\* both records (also an event without data).
InvalidConflictEvents ==
    [event_type : {"conflict_detected"}, turn_id : {"T1"},
     data : { [existing_memory |-> NoMemory, new_memory |-> Proposed("1")],
              NoConflict }]

\* eventSource.onmessage: such a message of an open channel.
OnInvalidConflictMessage ==
    /\ Len(handled) < MaxMalformed
    /\ \E ch \in OpenChannels, ev \in InvalidConflictEvents :
           HandlePipelineEvent(ev, ch)
    /\ UNCHANGED <<backendVars, envVars, conflictVars, pageVars,
                   currentProject, projects, ledger, chatVars, workVars,
                   projectContextMenuTarget, streamVars, flows>>

\* disconnectEventStream(), lines 133-138: the channel referred to is
\* closed and the reference emptied; without a reference nothing is done.
DisconnectKeepsReference ==
    /\ eventSource' = IF eventSource # NoChannel
                      THEN Close(eventSource) ELSE eventSource
    /\ UNCHANGED <<backendVars, envVars, conflictVars, pageVars,
                   currentProject, projects, ledger, chatVars, workVars,
                   projectContextMenuTarget, detached, logVars, flows>>
DisconnectEventStream ==
    /\ IF eventSource # NoChannel
       THEN /\ eventSource' = NoChannel
            /\ detached' = IF Close(eventSource).readyState = "open"
                           THEN Append(detached, Close(eventSource))
                           ELSE detached
       ELSE UNCHANGED streamVars
    /\ UNCHANGED <<backendVars, envVars, conflictVars, pageVars,
                   currentProject, projects, ledger, chatVars, workVars,
                   projectContextMenuTarget, logVars, flows>>

\* The messages that end a turn: complete for a turn of the stateless
\* chat, session_complete for a turn of a work session (lines 313-335).
CompleteEvents ==
    { [event_type |-> "complete", turn_id |-> "T1"],
      [event_type |-> "session_complete", turn_id |-> "T2"] }

\* eventSource.onmessage: a message of an open channel that ends a turn.
OnCompleteMessage ==
    /\ Len(handled) < MaxCompletions
    /\ \E ch \in OpenChannels, ev \in CompleteEvents :
           HandlePipelineEvent(ev, ch)
    /\ UNCHANGED <<backendVars, envVars, conflictVars, pageVars,
                   currentProject, projects, ledger, chatVars, workVars,
                   projectContextMenuTarget, streamVars, flows>>

\* Messages that are not a well-formed event: text that JSON.parse
\* rejects, the text null, an object without event_type, and a
\* memories_retrieved event whose data.memory_ids is a string.
MalformedMessages ==
    [kind : {"unparseable", "null"}, turn_id : {None}]
    \cup [kind : {"no_event_type", "ill_typed"}, turn_id : Turns \cup {None}]

\* eventSource.onmessage for a malformed message of channel ch (lines
\* 119-126). JSON.parse throws on unparseable text and event.event_type
\* throws on null (line 144), both before anything is written. An object
\* without event_type is handled as an event whose type is undefined.
\* memory_ids.slice(0, 5).forEach throws at line 189, after the log was
\* cleared and the turn id stored (lines 147-151) and before the tile is
\* appended (line 343). The catch of onmessage logs what was thrown.
HandleMalformed(msg, ch) ==
    LET ev == [event_type |-> None, turn_id |-> msg.turn_id]
    IN  /\ handled' = Append(handled, msg)
        /\ CASE msg.kind \in {"unparseable", "null"} ->
                    UNCHANGED <<currentTurnId, notifications>>
              [] msg.kind = "no_event_type" ->
                    /\ currentTurnId' = LogAfter(ev, ch).currentTurnId
                    /\ notifications' = LogAfter(ev, ch).notifications
              [] msg.kind = "ill_typed" ->
                    /\ currentTurnId' = StoredTurnId(currentTurnId, ev)
                    /\ notifications' =
                           IF ShouldClear(currentTurnId, ev)
                           THEN <<>> ELSE notifications

OnMalformedMessage ==
    /\ Len(handled) < MaxMalformed
    /\ \E ch \in OpenChannels, msg \in MalformedMessages :
           HandleMalformed(msg, ch)
    /\ UNCHANGED <<backendVars, envVars, conflictVars, pageVars,
                   currentProject, projects, ledger, chatVars, workVars,
                   projectContextMenuTarget, streamVars, flows>>

\* -------------------------------------------------------------- scheduler
Drop(f) == flows (-) SetToBag({f})
Add(g) == flows (+) SetToBag({g})
Replace(f, g) == (flows (-) SetToBag({f})) (+) SetToBag({g})
Suspended(fn, pc) == {f \in BagToSet(flows) : f.fn = fn /\ f.pc = pc}
CanIssue == BagCardinality(flows) < MaxFlows
\* How many flows are suspended at the await pc of fn.
Pending(fn, pc) ==
    BagCardinality([f \in Suspended(fn, pc) |-> CopiesIn(f, flows)])

\* A render writes the cards anew: the card a highlight timer holds is no
\* longer in the document.
Detached(f) ==
    IF f.pc = "t2500" THEN [f EXCEPT !.targetMemory = NoMemory] ELSE f
Detach(bag) == BagOfAll(Detached, bag)

\* loadLedger() called without await: the fetch for the project selected at
\* the call, or nothing when no project is selected (line 1424).
LedgerFlow(p) == Flow("loadLedger", "ledger", None, p, NoSession, None, None)

\* ------------------------------------------------- stateless project chat
\* What the chat pane shows: the welcome text, or a user message with the
\* typing indicator, with its stored answer, or with the error text.
Welcome == [kind |-> "welcome", user |-> None]
Shown(kind, message) == [kind |-> kind, user |-> message]

\* resetProjectChat(), lines 655-664.
ResetProjectChat ==
    /\ projectChatHistory' = <<>>
    /\ projectChatIndex' = 0
    /\ projectChatMessages' = Welcome

\* showStartTaskUI(), lines 884-889.
ShowStartTaskUI ==
    /\ workSession' = NoSession
    /\ workMessages' = <<>>

\* sendProjectChatMessage up to its await (lines 540-566).
SendProjectChatMessage ==
    \E text \in Texts :
        IF Trim(text) = "" \/ currentProject = None
        THEN UNCHANGED vars
        ELSE /\ CanIssue
             /\ Len(projectChatHistory)
                    + Pending("sendProjectChatMessage", "send") < MaxHistory
             /\ projectChatMessages' = Shown("typing", Trim(text))
             /\ flows' = Add(Flow("sendProjectChatMessage", "send", None,
                                  currentProject, NoSession, None,
                                  Trim(text)))
             /\ UNCHANGED <<backendVars, envVars, conflictVars, pageVars, currentProject, projects, ledger,
                            projectChatHistory, projectChatIndex, workVars,
                            projectContextMenuTarget, streamVars, logVars>>

\* displayProjectChatPair(state.projectChatHistory[index]), lines 601-635:
\* it throws on an index outside the history (pair is undefined there).
DisplayPair(history, index) == Shown("pair", history[index + 1].user)
CanDisplay(history, index) == index + 1 \in DOMAIN history

\* The history after the push of line 569.
PushFront(history, turn) == <<turn>> \o history
Push(history, turn) == Append(history, turn)

\* The cursor after a send, line 574.
IndexAfterSend(history, index) == Len(history) - 1

\* chatApi.send resolves (lines 568-598).
SendProjectChatResolves ==
    \E f \in Suspended("sendProjectChatMessage", "send") :
        \/ \E created \in BOOLEAN :
             LET history == Push(projectChatHistory, [user |-> f.message])
                 index == IndexAfterSend(history, projectChatIndex)
                 thrown == \/ ~CanDisplay(history, index)
                           \/ created /\ currentProject = None
             IN  /\ f.req \in backendProjects
                 /\ projectChatHistory' = history
                 /\ projectChatIndex' = index
                 /\ projectChatMessages' =
                        IF thrown THEN Shown("error", f.message)
                        ELSE DisplayPair(history, index)
                 /\ flows' = IF created /\ ~thrown
                             THEN Replace(f, [f EXCEPT !.pc = "stats",
                                                !.req = currentProject])
                             ELSE Drop(f)
                 /\ UNCHANGED <<backendVars, envVars, conflictVars, pageVars, currentProject, projects, ledger,
                                workVars, projectContextMenuTarget,
                                streamVars, logVars>>
        \/ /\ projectChatMessages' = Shown("error", f.message)
           /\ flows' = Drop(f)
           /\ UNCHANGED <<backendVars, envVars, conflictVars, pageVars, currentProject, projects, ledger,
                          projectChatHistory, projectChatIndex, workVars,
                          projectContextMenuTarget, streamVars, logVars>>

\* projectsApi.get of the stats refresh resolves (lines 582-585, 588-598).
StatsResolves ==
    \E f \in Suspended("sendProjectChatMessage", "stats") :
        \/ /\ f.req \in backendProjects
           /\ currentProject' = f.req
           /\ flows' = Replace(f, LedgerFlow(f.req))
           /\ UNCHANGED <<backendVars, envVars, conflictVars, pageVars, projects, ledger, chatVars, workVars,
                          projectContextMenuTarget, streamVars, logVars>>
        \/ /\ projectChatMessages' = Shown("error", f.message)
           /\ flows' = Drop(f)
           /\ UNCHANGED <<backendVars, envVars, conflictVars, pageVars, currentProject, projects, ledger,
                          projectChatHistory, projectChatIndex, workVars,
                          projectContextMenuTarget, streamVars, logVars>>

\* The guard of navigateProjectChat, line 639.
InRangeOffByOne(newIndex, history) ==
    newIndex >= 0 /\ newIndex <= Len(history)
InRange(newIndex, history) == newIndex >= 0 /\ newIndex < Len(history)

\* navigateProjectChat(direction), lines 637-644.
NavigateTruncating(direction) ==
    LET newIndex == projectChatIndex + direction
    IN  IF InRange(newIndex, projectChatHistory)
        THEN /\ projectChatIndex' = newIndex
             /\ projectChatHistory' =
                    SubSeq(projectChatHistory, 1, newIndex + 1)
             /\ projectChatMessages' =
                    DisplayPair(projectChatHistory, newIndex)
             /\ UNCHANGED <<backendVars, envVars, conflictVars, pageVars, currentProject,
                            projects, ledger, workVars,
                            projectContextMenuTarget, streamVars, logVars,
                            flows>>
        ELSE UNCHANGED vars
Navigate(direction) ==
    LET newIndex == projectChatIndex + direction
    IN  IF InRange(newIndex, projectChatHistory)
        THEN /\ projectChatIndex' = newIndex
             /\ projectChatMessages' =
                    IF CanDisplay(projectChatHistory, newIndex)
                    THEN DisplayPair(projectChatHistory, newIndex)
                    ELSE projectChatMessages
             /\ UNCHANGED <<backendVars, envVars, conflictVars, pageVars, currentProject, projects, ledger,
                            projectChatHistory, workVars,
                            projectContextMenuTarget, streamVars, logVars,
                            flows>>
        ELSE UNCHANGED vars

\* The prev and next buttons, lines 532-533.
NavigateProjectChat == \E direction \in {-1, 1} : Navigate(direction)

\* ------------------------------------------------------- project selection
SelectFlow(projectId, caller) ==
    Flow("selectProject", "get", projectId, projectId, NoSession, caller,
         None)

\* What the caller of selectProject does once it returns: only
\* deleteProjectFromMenu touches state (line 1283), so only it is recorded
\* as a flow's caller.
AfterSelect(f) ==
    projectContextMenuTarget' =
        IF f.caller = "deleteProjectFromMenu" THEN None
        ELSE projectContextMenuTarget

\* loadProjects: projectsApi.list resolves (lines 1150-1167).
LoadProjectsResolves ==
    \E f \in Suspended("loadProjects", "list") :
        \/ LET listed == ListOf(backendProjects, ProjectOrder)
           IN  /\ projects' = listed
               /\ flows' = IF listed # <<>>
                           THEN Replace(f, SelectFlow(listed[1], None))
                           ELSE Drop(f)
               /\ UNCHANGED <<backendVars, envVars, conflictVars, pageVars, currentProject, ledger, chatVars,
                              workVars, projectContextMenuTarget, streamVars,
                              logVars>>
        \/ /\ flows' = Drop(f)
           /\ toast' = "Failed to connect to server"
           /\ UNCHANGED <<backendVars, envVars, conflictVars, quietVars, currentProject,
                          projects, ledger, chatVars, workVars,
                          projectContextMenuTarget, streamVars, logVars>>

\* handleProjectOptionClick(projectId) up to the await of selectProject
\* (lines 1225-1231, 1312-1314).
HandleProjectOptionClick ==
    \E p \in Projects :
        /\ InList(p, projects)
        /\ CanIssue
        /\ flows' = Add(SelectFlow(p, None))
        /\ UNCHANGED <<backendVars, envVars, conflictVars, pageVars, currentProject, projects, ledger,
                       chatVars, workVars, projectContextMenuTarget,
                       streamVars, logVars>>

\* selectProject: projectsApi.get resolves; on success runs up to the await
\* inside checkForActiveWorkSession (lines 1314-1322, 1101-1105).
SelectProjectGetResolves ==
    \E f \in Suspended("selectProject", "get") :
        \/ /\ f.projectId \in backendProjects
           /\ currentProject' = f.projectId
           /\ ResetProjectChat
           /\ flows' = Replace(f, [f EXCEPT !.pc = "getActive",
                                            !.req = f.projectId])
           /\ UNCHANGED <<backendVars, envVars, conflictVars, pageVars, projects, ledger, workVars,
                          projectContextMenuTarget, streamVars, logVars>>
        \/ /\ flows' = Drop(f)
           /\ AfterSelect(f)
           /\ toast' = "Failed to load project"
           /\ UNCHANGED <<backendVars, envVars, conflictVars, quietVars, currentProject,
                          projects, ledger, chatVars, workVars, streamVars,
                          logVars>>

\* The rest of selectProject after checkForActiveWorkSession returned:
\* loadLedger() without await, then connectToEventStream (lines 1323-1326).
SelectTail(f) ==
    /\ flows' = IF currentProject # None
                THEN Replace(f, LedgerFlow(currentProject))
                ELSE Drop(f)
    /\ ConnectToEventStream(f.projectId)
    /\ AfterSelect(f)

\* checkForActiveWorkSession: workApi.getActive resolves (lines 1105-1143).
GetActiveResolves ==
    \E f \in Suspended("selectProject", "getActive") :
        \/ \* the backend holds an active session of the project asked for
           /\ f.req \in backendProjects
           /\ currentProject # None
           /\ workSession' = Session(f.req)
           /\ flows' = Replace(f, [f EXCEPT !.pc = "getMessages",
                                            !.req = currentProject,
                                            !.session = Session(f.req)])
           /\ UNCHANGED <<backendVars, envVars, conflictVars, pageVars, currentProject, projects, ledger,
                          chatVars, workMessages, projectContextMenuTarget,
                          streamVars, logVars>>
        \/ \* no active session; or state.currentProject.id throws after
           \* the session was stored; or the lookup failed
           /\ ShowStartTaskUI
           /\ SelectTail(f)
           /\ UNCHANGED <<backendVars, envVars, conflictVars, pageVars, currentProject, projects, ledger,
                          chatVars, logVars>>

\* The message lists the backend may hold for a session: with the welcome
\* message first; without it; with it in second place; empty.
WelcomeMessage == [role |-> "assistant", content |-> "Started work session"]
DefaultMessages ==
    <<WelcomeMessage, [role |-> "user", content |-> "m"],
      [role |-> "assistant", content |-> "a"]>>
MessageLists ==
    { DefaultMessages,
      <<[role |-> "user", content |-> "m"],
        [role |-> "assistant", content |-> "a"]>>,
      <<[role |-> "assistant", content |-> "a"], WelcomeMessage>>,
      <<[role |-> "user", content |-> "Started work session"]>>,
      <<>> }

\* The filter of line 1128.
StartsWithWelcome(content) == content = "Started work session"
Replayed(messages) ==
    IF /\ messages # <<>>
       /\ messages[1].role = "assistant"
       /\ StartsWithWelcome(messages[1].content)
    THEN Tail(messages) ELSE messages

\* checkForActiveWorkSession: workApi.getMessages resolves (lines 1115-1143).
GetMessagesResolves ==
    \E f \in Suspended("selectProject", "getMessages") :
        \/ /\ f.req \in backendProjects
           /\ IF workSession # NoSession
              THEN /\ workMessages' =
                          <<[role |-> "system",
                             content |-> f.session.task_description]>>
                          \o Replayed(backendMessages)
                   /\ UNCHANGED workSession
                   \* renderWorkMessages rewrites the container
                   /\ workTyping' = 0
              ELSE \* showWorkChatUI reads state.workSession of null; catch
                   /\ ShowStartTaskUI
                   /\ UNCHANGED workTyping
           /\ SelectTail(f)
           /\ UNCHANGED <<backendVars, envVars, conflictVars, toast, viewVars, unhandled,
                          taskModal,
                          currentProject, projects, ledger, chatVars,
                          logVars>>
        \/ /\ ShowStartTaskUI
           /\ SelectTail(f)
           /\ UNCHANGED <<backendVars, envVars, conflictVars, pageVars, currentProject, projects, ledger,
                          chatVars, logVars>>

\* loadLedger: memoryApi.ledger resolves (lines 1427-1432).
LoadLedgerResolves ==
    \E f \in Suspended("loadLedger", "ledger") :
        /\ \/ /\ f.req \in backendProjects
              /\ IF currentProject # None
                 THEN /\ RenderLedger("all", SnapshotOf(f.req))
                      /\ flows' = Detach(Drop(f))
                 ELSE \* updateStats(null) throws before the render
                      /\ ledger' = SnapshotOf(f.req)
                      /\ flows' = Drop(f)
                      /\ UNCHANGED <<ledgerContent, highlighted>>
           \/ /\ flows' = Drop(f)
              /\ UNCHANGED <<ledger, ledgerContent, highlighted>>
        /\ UNCHANGED <<backendVars, envVars, conflictVars, toast, currentView,
                       ledgerFilter, workTyping, taskModal, unhandled,
                       currentProject, projects, chatVars, workVars,
                       projectContextMenuTarget, streamVars, logVars>>

\* ------------------------------------------------------------ ledger view
\* A click on a filter button, lines 459-465.
FilterClick ==
    \E filter \in Filters :
        /\ ledgerFilter' = filter
        /\ RenderLedger(filter, ledger)
        /\ flows' = Detach(flows)
        /\ UNCHANGED <<backendVars, envVars, conflictVars, toast, currentView, workTyping, taskModal,
                       unhandled, currentProject, projects, chatVars,
                       workVars, projectContextMenuTarget, streamVars,
                       logVars>>

NavFlow(pc, req, citationText, targetMemory) ==
    [Flow("navigateToMemory", pc, None, req, NoSession, None, None)
        EXCEPT !.citationText = citationText, !.targetMemory = targetMemory]

\* navigateToMemory from the search of the target to the first timer
\* (lines 1678-1732) on the ledger l, `base` being the other flows: a
\* ledger of null throws at state.ledger.decisions and nothing catches it;
\* no target ends in the toast; a target switches to the ledger view, which
\* calls loadLedger() without await.
Locate(citationText, l, base) ==
    LET target == TargetMemory(citationText, l)
    IN  IF l = NoLedger
        THEN /\ unhandled' = TRUE
             /\ flows' = base
             /\ UNCHANGED <<toast, currentView>>
        ELSE IF target = NoMemory
        THEN /\ toast' = "Could not find memory"
             /\ flows' = base
             /\ UNCHANGED <<currentView, unhandled>>
        ELSE /\ currentView' = "ledger"
             /\ flows' = base
                    (+) SetToBag({NavFlow("t100", None, citationText,
                                          target)})
                    (+) (IF currentProject # None
                         THEN SetToBag({LedgerFlow(currentProject)})
                         ELSE EmptyBag)
             /\ UNCHANGED <<toast, unhandled>>

\* navigateToMemory(citationText) up to its first await, lines 1665-1732.
NavigateToMemory ==
    \E citationText \in Tokens :
        /\ IF currentProject = None
           THEN /\ toast' = "No project selected"
                /\ UNCHANGED <<currentView, unhandled, flows>>
           ELSE IF ledger = NoLedger
           THEN /\ CanIssue
                /\ flows' = Add(NavFlow("ledger", currentProject,
                                        citationText, NoMemory))
                /\ UNCHANGED <<toast, currentView, unhandled>>
           ELSE /\ BagCardinality(flows) + 2 <= MaxFlows
                /\ Locate(citationText, ledger, flows)
        /\ UNCHANGED <<backendVars, envVars, conflictVars, ledgerFilter, ledgerContent,
                       highlighted, workTyping, taskModal, currentProject, projects,
                       ledger, chatVars, workVars, projectContextMenuTarget,
                       streamVars, logVars>>

\* The loadLedger() that navigateToMemory awaits resolves (lines 1672-1674,
\* 1427-1432), and navigateToMemory goes on.
NavigateLedgerResolves ==
    \E f \in Suspended("navigateToMemory", "ledger") :
        /\ \/ /\ f.req \in backendProjects
              /\ IF currentProject # None
                 THEN /\ RenderLedger("all", SnapshotOf(f.req))
                      /\ Locate(f.citationText, SnapshotOf(f.req),
                                Detach(Drop(f)))
                 ELSE /\ ledger' = SnapshotOf(f.req)
                      /\ UNCHANGED <<ledgerContent, highlighted>>
                      /\ Locate(f.citationText, SnapshotOf(f.req), Drop(f))
           \/ /\ UNCHANGED <<ledger, ledgerContent, highlighted>>
              /\ Locate(f.citationText, ledger, Drop(f))
        /\ UNCHANGED <<backendVars, envVars, conflictVars, ledgerFilter, workTyping, taskModal,
                       currentProject, projects, chatVars, workVars,
                       projectContextMenuTarget, streamVars, logVars>>

\* The timer of 100 ms fires: the filter is set back to all and the ledger
\* rendered (lines 1732-1740).
NavigateShowsAll ==
    \E f \in Suspended("navigateToMemory", "t100") :
        /\ ledgerFilter' = "all"
        /\ RenderLedger("all", ledger)
        /\ flows' = Detach(Replace(f, [f EXCEPT !.pc = "t50"]))
        /\ UNCHANGED <<backendVars, envVars, conflictVars, toast, currentView, workTyping, taskModal,
                       unhandled, currentProject, projects, chatVars,
                       workVars, projectContextMenuTarget, streamVars,
                       logVars>>

\* The timer of 50 ms fires: the card of the target, when there is one, is
\* highlighted for 2500 ms (lines 1740-1760).
NavigateHighlights ==
    \E f \in Suspended("navigateToMemory", "t50") :
        /\ IF InList(f.targetMemory.id, ledgerContent)
           THEN /\ highlighted' = f.targetMemory.id
                /\ flows' = Replace(f, [f EXCEPT !.pc = "t2500"])
           ELSE /\ flows' = Drop(f)
                /\ UNCHANGED highlighted
        /\ UNCHANGED <<backendVars, envVars, conflictVars, toast, currentView,
                       ledgerFilter, ledgerContent, workTyping, taskModal, unhandled,
                       currentProject, projects, ledger, chatVars, workVars,
                       projectContextMenuTarget, streamVars, logVars>>

\* The timer of 2500 ms fires (lines 1757-1759): the card loses its
\* highlight, when it is still in the document and still has it.
HighlightExpires ==
    \E f \in Suspended("navigateToMemory", "t2500") :
        /\ highlighted' = IF /\ f.targetMemory # NoMemory
                             /\ highlighted = f.targetMemory.id
                          THEN <<>> ELSE highlighted
        /\ flows' = Drop(f)
        /\ UNCHANGED <<backendVars, envVars, conflictVars, toast, currentView,
                       ledgerFilter, ledgerContent, workTyping, taskModal, unhandled,
                       currentProject, projects, ledger, chatVars, workVars,
                       projectContextMenuTarget, streamVars, logVars>>

ResolverActions ==
    \/ FilterClick
    \/ NavigateToMemory
    \/ NavigateLedgerResolves
    \/ NavigateShowsAll
    \/ NavigateHighlights
    \/ HighlightExpires

\* ------------------------------------------------------- the work session
\* The handlers run whenever they are called: which screen is displayed
\* puts no condition on them in the code.
\* What no step of the work session touches.
workFrame ==
    <<backendVars, envVars, conflictVars, viewVars, unhandled, projects,
      ledger, chatVars, projectContextMenuTarget, streamVars, logVars>>

UserAsAssistant(message) == [role |-> "assistant", content |-> message]
UserMessage(message) == [role |-> "user", content |-> message]
SystemAsUser(taskDescription) ==
    [role |-> "user", content |-> taskDescription]
SystemMessage(taskDescription) ==
    [role |-> "system", content |-> taskDescription]
\* The reply pushed on success, with the ids response.debug.memory_used,
\* and the message pushed on failure.
AssistantMessage(memoriesUsed) ==
    [role |-> "assistant", content |-> "a", memoriesUsed |-> memoriesUsed]
FailureMessage ==
    [role |-> "assistant", content |-> "Sorry, an error occurred",
     memoriesUsed |-> <<>>]
MemoryUsed == { <<>>, << <<"a", "b">> >> }

\* openTaskModal(), lines 716-723.
OpenTaskModal ==
    /\ IF currentProject = None
       THEN /\ toast' = "Please select a project first"
            /\ UNCHANGED taskModal
       ELSE /\ taskModal' = TRUE
            /\ UNCHANGED toast
    /\ UNCHANGED <<workFrame, currentProject, workVars, workTyping, flows>>

\* beginTask up to its await (lines 844-852). state.currentProject.id is
\* read inside the try.
BeginTaskWith(text) ==
    LET taskDescription == Trim(text)
    IN  /\ IF taskDescription = ""
           THEN /\ toast' = "Please describe the task you want to work on"
                /\ UNCHANGED flows
           ELSE IF currentProject = None
           THEN /\ toast' = "Failed to start work session"
                /\ UNCHANGED flows
           ELSE /\ CanIssue
                /\ flows' = Add(Flow("beginTask", "start", None,
                                     currentProject, NoSession, None,
                                     taskDescription))
                /\ UNCHANGED toast
        /\ UNCHANGED <<workFrame, currentProject, workVars, workTyping,
                       taskModal>>
BeginTask == \E text \in Texts : BeginTaskWith(text)

\* beginTask: workApi.start resolves (lines 852-875).
StartResolves ==
    \E f \in Suspended("beginTask", "start") :
        /\ \/ /\ f.req \in backendProjects
              /\ workSession' = [session_id |-> SessionId(f.req),
                                 task_description |-> f.message,
                                 project |-> f.req]
              /\ workMessages' = <<SystemMessage(f.message)>>
              /\ taskModal' = FALSE
              /\ workTyping' = 0
              /\ toast' = "Work session started!"
           \/ /\ toast' = "Failed to start work session"
              /\ UNCHANGED <<workVars, taskModal, workTyping>>
        /\ flows' = Drop(f)
        /\ UNCHANGED <<workFrame, currentProject>>

\* sendWorkMessage up to its await (lines 897-922). renderWorkMessages
\* rewrites the pane, so the indicator just added is the only one.
SendWorkMessageWith(text) ==
    LET message == Trim(text)
    IN  IF message = "" \/ workSession = NoSession
        THEN UNCHANGED vars
        ELSE /\ Len(workMessages) + 2 * Pending("sendWorkMessage", "send") + 2
                    <= MaxMessages
             /\ IF currentProject = None
                THEN /\ workMessages' = workMessages
                            \o <<UserMessage(message), FailureMessage>>
                     /\ workTyping' = 0
                     /\ UNCHANGED flows
                ELSE /\ CanIssue
                     /\ workMessages' =
                            Append(workMessages, UserMessage(message))
                     /\ workTyping' = 1
                     /\ flows' = Add(Flow("sendWorkMessage", "send", None,
                                          currentProject, workSession, None,
                                          message))
             /\ UNCHANGED <<workFrame, currentProject, workSession, toast,
                            taskModal>>
SendWorkMessage == \E text \in Texts : SendWorkMessageWith(text)

\* sendWorkMessage: workApi.sendMessage resolves (lines 922-948).
WorkSendResolves ==
    \E f \in Suspended("sendWorkMessage", "send") :
        /\ \/ /\ f.req \in backendProjects
              /\ \E memoriesUsed \in MemoryUsed :
                     workMessages' =
                         Append(workMessages, AssistantMessage(memoriesUsed))
           \/ workMessages' = Append(workMessages, FailureMessage)
        /\ workTyping' = 0
        /\ flows' = Drop(f)
        /\ UNCHANGED <<workFrame, currentProject, workSession, toast,
                       taskModal>>

\* endWorkSession up to its await: part_001 lines 1065-1086, which resets
\* to the start screen at once, and app.js lines 856-869, which does not.
EndWorkSession ==
    \E confirmed \in BOOLEAN :
        IF workSession = NoSession \/ ~confirmed
        THEN UNCHANGED vars
        ELSE /\ IF build = "part_001"
                THEN ShowStartTaskUI
                ELSE UNCHANGED workVars
             /\ IF currentProject = None
                THEN /\ toast' = "Failed to end session"
                     /\ UNCHANGED flows
                ELSE /\ CanIssue
                     /\ toast' = "Ending session"
                     /\ flows' = Add(Flow("endWorkSession", "end", None,
                                          currentProject, workSession, None,
                                          None))
             /\ UNCHANGED <<workFrame, currentProject, workTyping,
                            taskModal>>

\* endWorkSession: workApi.endSession resolves (part_001 lines 1086-1098,
\* app.js lines 869-884).
EndResolves ==
    \E f \in Suspended("endWorkSession", "end") :
        /\ \/ /\ f.req \in backendProjects
              /\ IF currentProject = None
                 THEN /\ toast' = "Failed to end session"
                      /\ flows' = Drop(f)
                 ELSE /\ toast' = "Session completed"
                      /\ flows' = Replace(f, [f EXCEPT !.pc = "get",
                                                       !.req = currentProject])
           \/ /\ toast' = "Failed to end session"
              /\ flows' = Drop(f)
        /\ UNCHANGED <<workFrame, currentProject, workVars, workTyping,
                       taskModal>>

\* endWorkSession: projectsApi.get resolves (part_001 lines 1090-1098,
\* app.js lines 873-884).
EndGetResolves ==
    \E f \in Suspended("endWorkSession", "get") :
        /\ \/ /\ f.req \in backendProjects
              /\ currentProject' = f.req
              /\ flows' = Replace(f, LedgerFlow(f.req))
              /\ IF build = "app.js"
                 THEN ShowStartTaskUI
                 ELSE UNCHANGED workVars
              /\ UNCHANGED toast
           \/ /\ toast' = "Failed to end session"
              /\ flows' = Drop(f)
              /\ UNCHANGED <<currentProject, workVars>>
        /\ UNCHANGED <<workFrame, workTyping, taskModal>>

StartActions ==
    \/ OpenTaskModal
    \/ BeginTask
    \/ StartResolves

WorkActions ==
    \/ SendWorkMessage
    \/ WorkSendResolves
    \/ EndWorkSession
    \/ EndResolves
    \/ EndGetResolves

\* ----------------------------------------------------- conflict resolution
\* What no step of the conflict modal touches.
conflictFrame ==
    <<backendProjects, build, backendMessages, viewVars, workTyping,
      unhandled, taskModal, currentProject, projects, chatVars, workVars,
      projectContextMenuTarget, streamVars, currentTurnId, handled>>

\* A click on the tile of a conflict: openConflictModal(event.data), lines
\* 736-773.
OpenWithoutValidation ==
    \E i \in 1..Len(notifications) :
        LET tile == notifications[i]
        IN  /\ tile.event_type = "conflict_detected"
            /\ build = "part_001"
            /\ currentConflictData' = tile.data
            /\ conflictModal' = TRUE
            /\ UNCHANGED <<conflictFrame, backendLedger, ledger, toast,
                           notifications, flows>>
OpenConflictModal ==
    \E i \in 1..Len(notifications) :
        LET tile == notifications[i]
        IN  /\ tile.event_type = "conflict_detected"
            /\ build = "part_001"
            /\ IF \/ tile.data.existing_memory = NoMemory
                  \/ tile.data.new_memory = NoMemory
               THEN /\ toast' = "Invalid conflict data"
                    /\ UNCHANGED conflictVars
               ELSE /\ currentConflictData' = tile.data
                    /\ conflictModal' = TRUE
                    /\ UNCHANGED toast
            /\ UNCHANGED <<conflictFrame, backendLedger, ledger,
                           notifications, flows>>

\* The tiles without the class conflict-blink, lines 783-785.
StillBlinking(tiles) == tiles
Unblinked(tiles) ==
    [i \in 1..Len(tiles) |->
        IF tiles[i].event_type = "conflict_detected" /\ build = "part_001"
        THEN [tiles[i] EXCEPT !.blink = FALSE] ELSE tiles[i]]

\* closeConflictModal(), lines 775-786.
CloseConflictModal ==
    /\ conflictModal' = FALSE
    /\ currentConflictData' = NoConflict
    /\ notifications' = Unblinked(notifications)

\* The close button of the modal.
CloseConflictClick ==
    /\ build = "part_001"
    /\ CloseConflictModal
    /\ UNCHANGED <<conflictFrame, backendLedger, ledger, toast, flows>>

\* What the backend makes of a disposition: keep leaves the records as they
\* are; override marks the existing record disputed and adds the proposed
\* one, once however often it is submitted.
Disputed(records, id) ==
    [i \in 1..Len(records) |->
        IF records[i].id = id
        THEN [records[i] EXCEPT !.status = "disputed"] ELSE records[i]]
ResolveOnBackend(resolution, data, store) ==
    IF resolution = "override"
    THEN [store EXCEPT !.decisions =
             IF \E i \in 1..Len(@) : @[i].id = data.new_memory.id
             THEN Disputed(@, data.existing_memory.id)
             ELSE Append(Disputed(@, data.existing_memory.id),
                         data.new_memory)]
    ELSE store

\* The request of resolveConflict: the project, the disposition and the
\* payload of the conflict (lines 795-803).
ConflictFlowWithoutRecord(p, resolution, data) ==
    [Flow("resolveConflict", "fetch", None, p, NoSession, None, resolution)
        EXCEPT !.data = [data EXCEPT !.new_memory = NoMemory]]
ConflictFlow(p, resolution, data) ==
    [Flow("resolveConflict", "fetch", None, p, NoSession, None, resolution)
        EXCEPT !.data = data]

\* resolveConflict(resolution) up to its await, lines 788-803.
ResolveConflictWith(resolution) ==
    /\ build = "part_001"
    /\ IF currentConflictData = NoConflict \/ currentProject = None
       THEN /\ toast' = "No conflict to resolve"
            /\ UNCHANGED flows
       ELSE /\ CanIssue
            /\ flows' = Add(ConflictFlow(currentProject, resolution,
                                         currentConflictData))
            /\ UNCHANGED toast
    /\ UNCHANGED <<conflictFrame, conflictVars, backendLedger, ledger,
                   notifications>>
ResolveConflict ==
    \E resolution \in {"keep", "override"} : ResolveConflictWith(resolution)

\* resolveConflict: the fetch resolves (lines 805-827). The loadLedger it
\* awaits is its last statement.
ResolveConflictResolves ==
    \E f \in Suspended("resolveConflict", "fetch") :
        /\ \/ /\ f.req \in backendProjects
              /\ backendLedger' =
                     ResolveOnBackend(f.message, f.data, backendLedger)
              /\ toast' = IF f.message = "keep"
                          THEN "Kept existing memory"
                          ELSE "New memory created"
              /\ CloseConflictModal
              /\ flows' = IF currentProject # None
                          THEN Replace(f, LedgerFlow(currentProject))
                          ELSE Drop(f)
           \/ /\ toast' = "Failed to resolve conflict"
              /\ flows' = Drop(f)
              /\ UNCHANGED <<conflictVars, notifications, backendLedger>>
        /\ UNCHANGED <<conflictFrame, ledger>>

ConflictActions ==
    \/ OnConflictMessage
    \/ OpenConflictModal
    \/ CloseConflictClick
    \/ ResolveConflict
    \/ ResolveConflictResolves

\* handleProjectChange with the empty option (app.js lines 990-994).
HandleProjectChangeDeselect ==
    /\ build = "app.js"
    /\ currentProject' = None
    /\ ResetProjectChat
    /\ ShowStartTaskUI
    /\ UNCHANGED <<backendVars, envVars, conflictVars, pageVars, projects, ledger, projectContextMenuTarget,
                   streamVars, logVars, flows>>

\* --------------------------------------------------------- project deletion
\* showProjectContextMenu(e, projectId), lines 1233-1243.
ShowProjectContextMenu ==
    \E p \in Projects :
        /\ build = "part_001"
        /\ InList(p, projects)
        /\ projectContextMenuTarget' = p
        /\ UNCHANGED <<backendVars, envVars, conflictVars, pageVars, currentProject, projects, ledger,
                       chatVars, workVars, streamVars, logVars, flows>>

\* deleteProjectFromMenu up to its first await (lines 1245-1257).
DeleteProjectFromMenu ==
    \E confirmed \in BOOLEAN :
        /\ build = "part_001"
        /\ IF \/ projectContextMenuTarget = None
              \/ ~InList(projectContextMenuTarget, projects)
              \/ ~confirmed
           THEN UNCHANGED vars
           ELSE
             /\ CanIssue
             /\ flows' = Add(Flow("deleteProjectFromMenu", "delete", None,
                                  projectContextMenuTarget, NoSession, None,
                                  None))
             /\ UNCHANGED <<backendVars, envVars, conflictVars, pageVars, currentProject, projects, ledger,
                            chatVars, workVars, projectContextMenuTarget,
                            streamVars, logVars>>

\* projectsApi.delete resolves (lines 1257-1261, 1278-1283).
DeleteResolves ==
    \E f \in Suspended("deleteProjectFromMenu", "delete") :
        \/ /\ f.req \in backendProjects
           /\ backendProjects' = backendProjects \ {f.req}
           /\ flows' = Replace(f, [f EXCEPT !.pc = "list"])
           /\ toast' = "Project deleted"
           /\ UNCHANGED <<envVars, conflictVars, quietVars, currentProject, projects,
                          ledger, chatVars, workVars,
                          projectContextMenuTarget, streamVars, logVars>>
        \/ /\ projectContextMenuTarget' = None
           /\ flows' = Drop(f)
           /\ toast' = "Failed to delete project"
           /\ UNCHANGED <<backendVars, envVars, conflictVars, quietVars, currentProject,
                          projects, ledger, chatVars, workVars, streamVars,
                          logVars>>

\* projectsApi.list of deleteProjectFromMenu resolves (lines 1261-1283).
DeleteListResolves ==
    \E f \in Suspended("deleteProjectFromMenu", "list") :
        \/ LET listed == ListOf(backendProjects, ProjectOrder)
           IN  /\ projects' = listed
               /\ IF currentProject # None
                     /\ currentProject = projectContextMenuTarget
                  THEN /\ currentProject' = None
                       /\ IF listed # <<>>
                          THEN /\ flows' =
                                    Replace(f, SelectFlow(listed[1],
                                               "deleteProjectFromMenu"))
                               /\ UNCHANGED <<chatVars, workVars,
                                              projectContextMenuTarget>>
                          ELSE /\ ResetProjectChat
                               /\ ShowStartTaskUI
                               /\ projectContextMenuTarget' = None
                               /\ flows' = Drop(f)
                  ELSE /\ projectContextMenuTarget' = None
                       /\ flows' = Drop(f)
                       /\ UNCHANGED <<currentProject, chatVars, workVars>>
               /\ UNCHANGED <<backendVars, envVars, conflictVars, pageVars, ledger, streamVars, logVars>>
        \/ /\ projectContextMenuTarget' = None
           /\ flows' = Drop(f)
           /\ toast' = "Failed to delete project"
           /\ UNCHANGED <<backendVars, envVars, conflictVars, quietVars, currentProject,
                          projects, ledger, chatVars, workVars, streamVars,
                          logVars>>

\* --------------------------------------------------------- specifications
\* The page after DOMContentLoaded: initializeApp has called loadProjects
\* (lines 14-35, 108-109, 485, 2068). The backend is the environment: what
\* it answers (an active session or none, which messages, new records or
\* none, an error) is chosen when the response is delivered.
InitWith(b, l, m) ==
    /\ build = b
    /\ backendLedger = l
    /\ backendMessages = m
    /\ toast = None
    /\ currentView = "chat"
    /\ ledgerFilter = "all"
    /\ ledgerContent = <<>>
    /\ highlighted = <<>>
    /\ workTyping = 0
    /\ unhandled = FALSE
    /\ taskModal = FALSE
    /\ currentConflictData = NoConflict
    /\ conflictModal = FALSE
    /\ backendProjects = Projects
    /\ currentProject = None
    /\ projects = <<>>
    /\ ledger = NoLedger
    /\ projectChatHistory = <<>>
    /\ projectChatIndex = 0
    /\ projectChatMessages = Welcome
    /\ workSession = NoSession
    /\ workMessages = <<>>
    /\ projectContextMenuTarget = None
    /\ eventSource = NoChannel
    /\ detached = <<>>
    /\ currentTurnId = None
    /\ notifications = <<>>
    /\ flows = SetToBag({Flow("loadProjects", "list", None, None, NoSession,
                              None, None)})
    /\ handled = <<>>

\* Either copy of the client, against a backend that holds one record and
\* one message history.
Init == \E b \in Builds : InitWith(b, DefaultLedger, DefaultMessages)

SelectActions ==
    \/ LoadProjectsResolves
    \/ HandleProjectOptionClick
    \/ SelectProjectGetResolves
    \/ GetActiveResolves
    \/ GetMessagesResolves
    \/ LoadLedgerResolves

DeleteActions ==
    \/ ShowProjectContextMenu
    \/ DeleteProjectFromMenu
    \/ DeleteResolves
    \/ DeleteListResolves

ChatActions ==
    \/ SendProjectChatMessage
    \/ SendProjectChatResolves
    \/ StatsResolves
    \/ NavigateProjectChat

Next ==
    \/ SelectActions
    \/ DeleteActions
    \/ ChatActions
    \/ HandleProjectChangeDeselect
    \/ OnMessage
    \/ ResolverActions
    \/ StartActions
    \/ WorkActions
    \/ ConflictActions
    \/ OnCompleteMessage
    \/ OnMalformedMessage
    \/ DisconnectEventStream
    \/ OnInvalidConflictMessage

\* Project selection, deselection and deletion: every action that writes
\* state.currentProject, state.ledger or the channel, without the chat.
NextProjects ==
    \/ SelectActions
    \/ DeleteActions
    \/ HandleProjectChangeDeselect

\* The stateless chat after page load: the startup selection, the sends,
\* their stats refresh, the navigation buttons and the deselection, which
\* resets the chat under sends in flight.
NextChat ==
    \/ LoadProjectsResolves
    \/ SelectProjectGetResolves
    \/ GetActiveResolves
    \/ GetMessagesResolves
    \/ LoadLedgerResolves
    \/ ChatActions
    \/ HandleProjectChangeDeselect

\* The event stream client after page load: the startup selection, which
\* opens the channel, and the messages of the channel. Nothing else writes
\* currentTurnId or the notification log.
NextStream ==
    \/ LoadProjectsResolves
    \/ SelectProjectGetResolves
    \/ GetActiveResolves
    \/ GetMessagesResolves
    \/ LoadLedgerResolves
    \/ OnMessage

\* The stateless chat with the deletion of projects, which deselects the
\* current project before it selects another.
NextChatDelete ==
    \/ LoadProjectsResolves
    \/ SelectProjectGetResolves
    \/ GetActiveResolves
    \/ GetMessagesResolves
    \/ LoadLedgerResolves
    \/ ChatActions
    \/ DeleteActions

\* The ledger view and the citation resolver after page load, against a
\* backend that holds any of the modelled ledgers.
InitResolver ==
    \E b \in Builds, l \in LedgerContents : InitWith(b, l, DefaultMessages)

NextResolver ==
    \/ LoadProjectsResolves
    \/ SelectProjectGetResolves
    \/ GetActiveResolves
    \/ GetMessagesResolves
    \/ LoadLedgerResolves
    \/ ResolverActions

\* The work session after page load, against a backend whose session has
\* no messages but the welcome.
InitWork ==
    \E b \in Builds : InitWith(b, DefaultLedger, <<WelcomeMessage>>)

\* Starting a session after page load, with the deselection that leaves no
\* project.
NextStart ==
    \/ LoadProjectsResolves
    \/ SelectProjectGetResolves
    \/ GetActiveResolves
    \/ GetMessagesResolves
    \/ LoadLedgerResolves
    \/ StartActions
    \/ HandleProjectChangeDeselect

\* Starting, sending in and ending sessions after page load.
NextWork ==
    \/ LoadProjectsResolves
    \/ SelectProjectGetResolves
    \/ GetActiveResolves
    \/ GetMessagesResolves
    \/ LoadLedgerResolves
    \/ BeginTask
    \/ StartResolves
    \/ WorkActions

\* Selections after page load, against a backend whose session holds any
\* of the modelled message lists.
InitRestore ==
    \E b \in Builds, m \in MessageLists : InitWith(b, DefaultLedger, m)

NextRestore == SelectActions

\* Conflicts after page load: the events of the channel, the modal and
\* the dispositions.
NextConflict ==
    \/ LoadProjectsResolves
    \/ SelectProjectGetResolves
    \/ GetActiveResolves
    \/ GetMessagesResolves
    \/ LoadLedgerResolves
    \/ ConflictActions

\* The turns of the stateless chat after page load, with the messages of
\* the channel that end a turn.
NextTurn ==
    \/ LoadProjectsResolves
    \/ SelectProjectGetResolves
    \/ GetActiveResolves
    \/ GetMessagesResolves
    \/ LoadLedgerResolves
    \/ SendProjectChatMessage
    \/ SendProjectChatResolves
    \/ StatsResolves
    \/ OnCompleteMessage

\* The event stream client after page load with the messages that end a
\* turn and the malformed messages.
NextMalformed ==
    \/ LoadProjectsResolves
    \/ SelectProjectGetResolves
    \/ GetActiveResolves
    \/ GetMessagesResolves
    \/ LoadLedgerResolves
    \/ OnCompleteMessage
    \/ OnMalformedMessage

\* The event stream client after page load with the messages that end a
\* turn and the disconnection, before and after the channel is opened.
NextDisconnect ==
    \/ LoadProjectsResolves
    \/ SelectProjectGetResolves
    \/ GetActiveResolves
    \/ GetMessagesResolves
    \/ LoadLedgerResolves
    \/ OnCompleteMessage
    \/ DisconnectEventStream

\* Selections, which open the channel of the project selected, with the
\* messages that end a turn.
NextSwitch ==
    \/ SelectActions
    \/ OnCompleteMessage

\* The start of the conflict flow after page load: the events, those whose
\* payload is incomplete among them, the click on a tile and the click on
\* a disposition.
NextInvalidConflict ==
    \/ LoadProjectsResolves
    \/ SelectProjectGetResolves
    \/ GetActiveResolves
    \/ GetMessagesResolves
    \/ LoadLedgerResolves
    \/ OnConflictMessage
    \/ OnInvalidConflictMessage
    \/ OpenConflictModal
    \/ ResolveConflict

\* Selections with the sends of the stateless chat and their stats
\* refresh.
NextStatsSwitch ==
    \/ SelectActions
    \/ SendProjectChatMessage
    \/ SendProjectChatResolves
    \/ StatsResolves

\* Selections with the start of the conflict flow.
NextConflictSwitch ==
    \/ SelectActions
    \/ OnConflictMessage
    \/ OpenConflictModal
    \/ ResolveConflict

Spec == Init /\ [][Next]_vars
SpecConflictSwitch == Init /\ [][NextConflictSwitch]_vars
SpecStatsSwitch == Init /\ [][NextStatsSwitch]_vars
SpecInvalidConflict == Init /\ [][NextInvalidConflict]_vars
SpecSwitch == Init /\ [][NextSwitch]_vars
SpecDisconnect == Init /\ [][NextDisconnect]_vars
SpecMalformed == Init /\ [][NextMalformed]_vars
SpecTurn == Init /\ [][NextTurn]_vars
SpecConflict == Init /\ [][NextConflict]_vars
SpecRestore == InitRestore /\ [][NextRestore]_vars
SpecStart == InitWork /\ [][NextStart]_vars
SpecWork == InitWork /\ [][NextWork]_vars
SpecResolver == InitResolver /\ [][NextResolver]_vars
SpecChatDelete == Init /\ [][NextChatDelete]_vars
SpecProjects == Init /\ [][NextProjects]_vars
SpecChat == Init /\ [][NextChat]_vars
SpecStream == Init /\ [][NextStream]_vars


\* ------------------------------------------------------------------ claims
\* What a run of push events leaves in the log: the non-handshake events
\* of the last maximal run of equal turn ids.
NonHandshake(evs) == SelectSeq(evs, LAMBDA e : e.event_type # "connected")

RECURSIVE LastRun(_)
LastRun(evs) ==
    IF Len(evs) <= 1 THEN evs
    ELSE LET init == SubSeq(evs, 1, Len(evs) - 1)
             last == evs[Len(evs)]
             run == LastRun(init)
         IN  IF run[Len(run)].turn_id = last.turn_id
             THEN Append(run, last) ELSE <<last>>

TileEvents == [i \in 1..Len(notifications) |->
                  [event_type |-> notifications[i].event_type,
                   turn_id |-> notifications[i].turn_id]]

\* C1: the tiles of the notification log that carry a turn id all carry
\* the same one, whatever events were handled, events without a turn id
\* included.
C1_OneTurnInLog ==
    \A i, j \in 1..Len(notifications) :
        (notifications[i].turn_id # None /\ notifications[j].turn_id # None)
            => notifications[i].turn_id = notifications[j].turn_id

\* C2: when every non-handshake event handled so far carried a turn id,
\* the log holds exactly the events of the last maximal run of equal turn
\* ids, in order.
C2_LogIsLastRun ==
    (\A i \in 1..Len(handled) :
         handled[i].event_type # "connected" => handled[i].turn_id # None)
        => TileEvents = LastRun(NonHandshake(handled))

\* The events [T1, T1, T1, T2] were handled and the log holds the T2 tile.
C2_Witness ==
    /\ Len(handled) = 4
    /\ \A i \in 1..4 : handled[i].event_type = "generating"
    /\ \A i \in 1..3 : handled[i].turn_id = "T1"
    /\ handled[4].turn_id = "T2"
    /\ Len(notifications) = 1
    /\ notifications[1].turn_id = "T2"

\* C3: handling a non-handshake event without a turn id leaves currentTurnId
\* unchanged, and handling one with a turn id stores that id.
C3_TurnIdStoredOrKept ==
    [][Len(handled') = Len(handled) + 1
       => LET ev == handled'[Len(handled')]
          IN  ev.event_type # "connected"
              => currentTurnId' = IF ev.turn_id = None
                                  THEN currentTurnId ELSE ev.turn_id]_vars

\* C4: at most one push channel is live: no channel other than the one
\* eventSource refers to is open.
C4_AtMostOneLiveChannel ==
    /\ detached = <<>>
    /\ Cardinality(OpenChannels) <= 1

\* A second selection has connected to B after a ledger was fetched for A,
\* which only a selection that went on to connect issues.
C4_Witness ==
    /\ currentProject = "B"
    /\ eventSource = Channel("B")
    /\ ledger = SnapshotOf("A")
    /\ flows = EmptyBag

\* C5: once no call is pending, the Record Cache holds the selected
\* project's ledger (or none, its fetch having failed), the navigator is
\* empty, and exactly one channel is live, that of the selected project.
C5_SwitchSettles ==
    (flows = EmptyBag /\ currentProject # None)
        => /\ ledger \in {SnapshotOf(currentProject), NoLedger}
           /\ projectChatHistory = <<>>
           /\ OpenChannels = {Channel(currentProject)}
           /\ detached = <<>>

\* C6: while a project is selected the Record Cache is empty or holds that
\* project's snapshot.
C6_CacheOfCurrentProject ==
    currentProject # None
        => ledger \in {NoLedger, SnapshotOf(currentProject)}

\* The flow f is resumed by this step.
Resumed(f) == CopiesIn(f, flows') < CopiesIn(f, flows)

\* C7: a response to a request issued for a project that is no longer the
\* selected one changes none of the navigator history and cursor, the work
\* session, the work messages and the Record Cache.
C7_StaleResponsesDiscarded ==
    [][\A f \in BagToSet(flows) :
           (/\ Resumed(f)
            /\ f.pc \in {"send", "ledger", "getActive", "getMessages"}
            /\ f.req # currentProject)
               => UNCHANGED <<projectChatHistory, projectChatIndex,
                              workSession, workMessages, ledger>>]_vars

\* C8: while a project is selected no channel of another project is live.
C8_ChannelOfCurrentProject ==
    currentProject # None
        => \A ch \in OpenChannels : ch.project = currentProject

CursorInRange ==
    IF projectChatHistory = <<>> THEN projectChatIndex = 0
    ELSE projectChatIndex \in 0..(Len(projectChatHistory) - 1)

\* C10: the cursor is within [0, length-1], and 0 when the history is
\* empty, after every step; prev() at index 0, next() at the last index,
\* and both on an empty history change neither the cursor nor the display.
C10_CursorClamped ==
    /\ CursorInRange
    /\ [][/\ CursorInRange'
          /\ (Navigate(-1) /\ projectChatIndex = 0)
                 => UNCHANGED <<projectChatIndex, projectChatMessages>>
          /\ (Navigate(1)
              /\ projectChatIndex >= Len(projectChatHistory) - 1)
                 => UNCHANGED <<projectChatIndex, projectChatMessages>>]_vars

\* Three turns are held and prev() has moved the cursor back to the first,
\* which the pane shows.
C10_Witness ==
    /\ projectChatHistory = <<[user |-> "m1"], [user |-> "m2"],
                              [user |-> "m2"]>>
    /\ projectChatIndex = 0
    /\ projectChatMessages = Shown("pair", "m1")

\* C11: a navigation step (prev or next) leaves the history as it was: its
\* length, its order and every stored turn.
C11_NavigationKeepsHistory ==
    [][\A direction \in {-1, 1} :
           Navigate(direction) => UNCHANGED projectChatHistory]_vars

\* prev() has moved the cursor from the second of two turns to the first,
\* and both turns are still held.
C11_Witness ==
    /\ projectChatHistory = <<[user |-> "m1"], [user |-> "m2"]>>
    /\ projectChatIndex = 0
    /\ projectChatMessages = Shown("pair", "m1")

\* C12: every step that changes the selected project clears the history
\* and resets the cursor to 0.
C12_ChangeResetsChat ==
    [][currentProject' # currentProject
           => /\ projectChatHistory' = <<>>
              /\ projectChatIndex' = 0]_vars

\* The record the citation flow f is looking for, once it has found one.
Located(f) ==
    /\ f.fn = "navigateToMemory"
    /\ f.pc \in {"t100", "t50"}

\* C13: a token that is the full id of a cached record resolves to exactly
\* that record, whatever other ids start with the token.
C13_ExactIdFirst ==
    \A f \in DOMAIN flows :
        /\ Located(f)
        /\ ledger # NoLedger
        /\ \E i \in 1..Len(AllMemories(ledger)) :
               AllMemories(ledger)[i].id = f.citationText
        => f.targetMemory.id = f.citationText

\* The type tokens tried, each with the collection and the position it
\* names.
TypeTokens ==
    { [token |-> <<"D", "E", "C", "I", "S", "I", "O", "N">>,
       field |-> "decisions", n |-> 1],
      [token |-> <<"d", "e", "c", "i", "s", "i", "o", "n", "-", "2">>,
       field |-> "decisions", n |-> 2],
      [token |-> <<"D", "E", "C", "I", "S", "I", "O", "N", "-", "0">>,
       field |-> "decisions", n |-> 0],
      [token |-> <<"D", "E", "C", "I", "S", "I", "O", "N", "-", "3">>,
       field |-> "decisions", n |-> 3],
      [token |-> <<"B", "E", "L", "I", "E", "F", "-", "1">>,
       field |-> "beliefs", n |-> 1] }

\* C14: whatever was rendered with whatever filter, TYPE-N resolves to the
\* Nth record of that type in the order the backend sent them (N is 1
\* without a number), and to nothing when N is 0 or more than the records
\* of the type.
C14_TypeIndexInReceivedOrder ==
    ledger # NoLedger
        => \A t \in TypeTokens :
               TargetMemory(t.token, ledger)
                   = IF t.n \in 1..Len(backendLedger[t.field])
                     THEN backendLedger[t.field][t.n]
                     ELSE NoMemory

\* A step in which navigateToMemory has looked for its target, and one in
\* which it has found none.
Resolved ==
    \/ NavigateToMemory /\ currentProject # None /\ ledger # NoLedger
    \/ NavigateLedgerResolves
NoTarget ==
    Pending("navigateToMemory", "t100")' = Pending("navigateToMemory", "t100")

\* C15: a resolution that finds no record, the cache being empty after a
\* failed refresh included, throws nothing, shows the notice 'not found'
\* and leaves the view, the filter and the highlight as they were.
C15_NoMatchEndsInNotice ==
    [][Resolved /\ NoTarget
           => /\ unhandled' = unhandled
              /\ toast' = "Could not find memory"
              /\ UNCHANGED <<currentView, ledgerFilter, highlighted>>]_vars

\* C16: beginTask with an empty or whitespace-only description issues no
\* request and leaves the work session and its messages as they were.
C16_EmptyDescriptionRejected ==
    [][\A text \in {"", " "} :
           BeginTaskWith(text)
               => UNCHANGED <<flows, workSession, workMessages>>]_vars

C16_Witness ==
    /\ toast = "Please describe the task you want to work on"
    /\ taskModal
    /\ workSession = NoSession
    /\ workMessages = <<>>

\* C17: the click on Begin changes neither the session nor the messages;
\* when workApi.start resolves, either both are left as they were and the
\* failure notice is shown, or the session holds the returned id and the
\* description given and the messages are exactly the system message.
C17_StartOutcome ==
    [][/\ BeginTask => UNCHANGED <<workSession, workMessages>>
       /\ \A f \in DOMAIN flows :
              StartResolves /\ flows' = Drop(f)
                  => \/ /\ UNCHANGED <<workSession, workMessages>>
                        /\ toast' = "Failed to start work session"
                     \/ /\ workSession'.session_id = SessionId(f.req)
                        /\ workSession'.task_description = f.message
                        /\ workMessages'
                               = <<[role |-> "system",
                                    content |-> f.message]>>]_vars

C17_Witness ==
    /\ toast = "Work session started!"
    /\ workSession.session_id = "sA"
    /\ workSession.task_description = "m1"
    /\ workMessages = <<[role |-> "system", content |-> "m1"]>>

\* C18: sendWorkMessage without a session or with an empty text changes
\* nothing; otherwise it appends the user message at once, and when
\* workApi.sendMessage resolves exactly one message is appended, the reply
\* with its cited ids or the failure message, and no typing indicator is
\* left.
C18_SendAppends ==
    [][/\ \A text \in Texts :
              SendWorkMessageWith(text)
                  => IF text \in {"", " "} \/ workSession = NoSession
                     THEN UNCHANGED vars
                     ELSE /\ Len(workMessages') > Len(workMessages)
                          /\ SubSeq(workMessages', 1, Len(workMessages) + 1)
                                 = Append(workMessages,
                                          [role |-> "user", content |-> text])
       /\ WorkSendResolves
              => /\ Len(workMessages') = Len(workMessages) + 1
                 /\ SubSeq(workMessages', 1, Len(workMessages))
                        = workMessages
                 /\ workMessages'[Len(workMessages')]
                        \in {AssistantMessage(memoriesUsed) :
                                 memoriesUsed \in MemoryUsed}
                            \cup {FailureMessage}
                 /\ workTyping' = 0]_vars

C18_Witness ==
    /\ workSession = Session("A")
    /\ Len(workMessages) = 3
    /\ workMessages[2] = [role |-> "user", content |-> "m1"]
    /\ workMessages[3] = AssistantMessage(<< <<"a", "b">> >>)
    /\ workTyping = 0

\* C19: the step of endWorkSession that issues workApi.endSession leaves no
\* session and no messages.
C19_EndIsImmediate ==
    [][Pending("endWorkSession", "end")' > Pending("endWorkSession", "end")
           => /\ workSession' = NoSession
              /\ workMessages' = <<>>]_vars

\* The flow f is the one that takes the step.
Consumed(f) == CopiesIn(f, flows') < CopiesIn(f, flows)
\* The persisted history as it is to be replayed.
WithoutWelcome(history) ==
    IF history # <<>> /\ history[1] = WelcomeMessage
    THEN Tail(history) ELSE history

\* C20: when the lookup of a selection resolves, the state holds the
\* session found or is idle; when its history fetch resolves, the state
\* holds that session with the system message followed by the history, less
\* a leading welcome message, or is idle.
C20_RestoreOutcome ==
    [][\A f \in DOMAIN flows :
           /\ GetActiveResolves /\ Consumed(f) /\ f.pc = "getActive"
                  => \/ workSession' = Session(f.req)
                     \/ workSession' = NoSession /\ workMessages' = <<>>
           /\ GetMessagesResolves /\ Consumed(f) /\ f.pc = "getMessages"
                  => \/ /\ workSession' = f.session
                        /\ workMessages'
                               = <<[role |-> "system",
                                    content |-> f.session.task_description]>>
                                 \o WithoutWelcome(backendMessages)
                     \/ workSession' = NoSession /\ workMessages' = <<>>]_vars

\* C21: a click on Begin with the modal open issues workApi.start for the
\* selected project only when no session of that project is active and no
\* start for it is in flight.
C21_OneStartPerProject ==
    [][\A text \in Texts :
           BeginTaskWith(text) /\ taskModal /\ flows' # flows
               => /\ workSession.project # currentProject
                  /\ \A f \in Suspended("beginTask", "start") :
                         f.req # currentProject]_vars

\* C22: when the request of resolveConflict succeeds the modal is closed,
\* no candidate is held, the tiles of the conflict no longer blink and a
\* ledger fetch is issued; when it fails the modal, the candidate and the
\* tiles are as they were, the failure is shown and no fetch is issued.
C22_ResolveOutcome ==
    [][\A f \in DOMAIN flows :
           ResolveConflictResolves /\ Consumed(f) /\ f.fn = "resolveConflict"
               => \/ /\ ~conflictModal'
                     /\ currentConflictData' = NoConflict
                     /\ \A i \in 1..Len(notifications') :
                            /\ notifications'[i].event_type
                                   = "conflict_detected"
                            /\ notifications'[i].data = f.data
                            => ~notifications'[i].blink
                     /\ toast' \in {"Kept existing memory",
                                    "New memory created"}
                     /\ Pending("loadLedger", "ledger")'
                            = Pending("loadLedger", "ledger") + 1
                  \/ /\ UNCHANGED <<conflictModal, currentConflictData,
                                     notifications>>
                     /\ toast' = "Failed to resolve conflict"
                     /\ Pending("loadLedger", "ledger")'
                            = Pending("loadLedger", "ledger")]_vars

C22_Witness ==
    /\ toast = "New memory created"
    /\ ~conflictModal
    /\ currentConflictData = NoConflict
    /\ Len(notifications) = 1
    /\ notifications[1].event_type = "conflict_detected"
    /\ ~notifications[1].blink
    /\ Pending("loadLedger", "ledger") = 1

\* C23: a disposition is submitted for a candidate only when no request of
\* resolveConflict for that candidate is in flight.
C23_OneDisposition ==
    [][\A resolution \in {"keep", "override"} :
           ResolveConflictWith(resolution) /\ conflictModal
               /\ flows' # flows
               => \A f \in Suspended("resolveConflict", "fetch") :
                      f.data # currentConflictData]_vars

\* The positions of the tiles of conflicts in a log.
ConflictEntries(tiles) ==
    {i \in 1..Len(tiles) : tiles[i].event_type = "conflict_detected"}

\* C24: the entry of a conflict stays in the log, with its payload, in
\* every step but a dismissal and the end of a resolution: no message
\* handled removes it.
C24_ConflictEntryStays ==
    [][build = "part_001"
           => \/ \A i \in ConflictEntries(notifications) :
                     /\ i \in ConflictEntries(notifications')
                     /\ notifications'[i].data = notifications[i].data
              \/ CloseConflictClick
              \/ ResolveConflictResolves]_vars

\* The records of a collection with the id.
WithId(records, id) ==
    {i \in 1..Len(records) : records[i].id = id}

\* C25: when a request of resolveConflict succeeds for the candidate the
\* modal shows, 'keep' leaves the records of the backend as they were, and
\* 'override' leaves the existing record disputed and the proposed record
\* stored; a ledger fetch that succeeds makes the cache hold the decisions
\* of the backend, the proposed record among them.
C25_BackendDisposition ==
    [][/\ \A f \in DOMAIN flows :
              /\ ResolveConflictResolves /\ Consumed(f)
              /\ f.fn = "resolveConflict" /\ conflictModal
              /\ toast' # "Failed to resolve conflict"
              => /\ f.message = "keep" => backendLedger' = backendLedger
                 /\ f.message = "override"
                        => /\ \A i \in WithId(backendLedger'.decisions,
                                     currentConflictData.existing_memory.id) :
                                  backendLedger'.decisions[i].status
                                      = "disputed"
                           /\ \E i \in DOMAIN backendLedger'.decisions :
                                  backendLedger'.decisions[i]
                                      = currentConflictData.new_memory
                           /\ Len(backendLedger'.decisions)
                                  <= Len(backendLedger.decisions) + 1
       /\ LoadLedgerResolves /\ ledger' # ledger
              => ledger'.decisions = backendLedger.decisions]_vars

C25_Witness ==
    /\ ledger # NoLedger
    /\ toast = "New memory created"
    /\ \E i \in WithId(ledger.decisions, Existing.id) :
           ledger.decisions[i].status = "disputed"
    /\ \E i \in DOMAIN ledger.decisions :
           ledger.decisions[i] = Proposed("1")

C27_MalformedDropped ==
    [][OnMalformedMessage
           => UNCHANGED <<currentTurnId, notifications, streamVars,
                          unhandled>>]_vars

\* C28: after disconnectEventStream the reference is empty and no channel
\* delivers messages, and nothing is thrown; without a reference, after a
\* disconnection or when no channel was opened, a call changes nothing.
C28_DisconnectIdempotent ==
    /\ [][DisconnectEventStream
              => /\ eventSource' = NoChannel
                 /\ OpenChannels' = {}
                 /\ unhandled' = unhandled
                 /\ eventSource = NoChannel => UNCHANGED vars]_vars
    /\ [](eventSource = NoChannel
              => ~ENABLED (DisconnectEventStream /\ vars' # vars))

\* A message was handled, so a channel was open, and a disconnection has
\* left no channel.
C28_Witness ==
    /\ handled # <<>>
    /\ eventSource = NoChannel
    /\ OpenChannels = {}
    /\ currentProject # None

\* C29: a stateless send whose answer reports new records is followed by a
\* ledger fetch, issued when its stats refresh ends; the answer of a send
\* that reports none issues no fetch; a fetch that succeeds replaces the
\* cache by the snapshot of the backend.
C29_MutationRefetches ==
    [][/\ StatsResolves
              => Pending("loadLedger", "ledger")'
                     = Pending("loadLedger", "ledger") + 1
       /\ SendProjectChatResolves
              => Pending("loadLedger", "ledger")'
                     = Pending("loadLedger", "ledger")
       /\ LoadLedgerResolves /\ ledger' # ledger
              => \E p \in Projects : ledger' = SnapshotOf(p)]_vars

\* C30: when a selection replaces the channel of one project by the
\* channel of another, the log holds no tile of the events of the former
\* project and no turn id is stored.
C30_SwitchTearsDown ==
    [][/\ eventSource # NoChannel
       /\ eventSource' # NoChannel
       /\ eventSource'.project # eventSource.project
       => /\ currentTurnId' = None
          /\ \A i \in 1..Len(notifications') :
                 notifications'[i].project # eventSource.project]_vars

\* C31: the step that handles a connected event, wherever it is in the
\* sequence of events, leaves the log and the stored turn id as they were.
C31_ConnectedDiscarded ==
    [][/\ handled' # handled
       /\ handled'[Len(handled')].event_type = "connected"
       => UNCHANGED <<currentTurnId, notifications>>]_vars

\* A connected event that carries the id of another turn was handled in
\* the middle of a turn: the tile and the turn id of the turn are there.
C31_Witness ==
    /\ Len(handled) = 2
    /\ handled[1].event_type = "generating"
    /\ handled[2] = [event_type |-> "connected", turn_id |-> "T2"]
    /\ currentTurnId = "T1"
    /\ Len(notifications) = 1

\* A payload with both records.
BothViews(data) ==
    data.existing_memory # NoMemory /\ data.new_memory # NoMemory

\* C32: the candidate stored, the candidate of an open modal and the
\* payload of every request have both records; a call of resolveConflict
\* without a candidate or without a project issues no request.
C32_FlowNeedsBothViews ==
    /\ [](/\ currentConflictData # NoConflict
              => BothViews(currentConflictData)
          /\ conflictModal => BothViews(currentConflictData)
          /\ \A f \in Suspended("resolveConflict", "fetch") :
                 BothViews(f.data) /\ f.req # None)
    /\ [][/\ ResolveConflict
          /\ currentConflictData = NoConflict \/ currentProject = None
          => flows' = flows]_vars

\* A tile whose payload lacks a record was clicked: the notice is shown,
\* no modal is open and no candidate is stored.
C32_Witness ==
    /\ toast = "Invalid conflict data"
    /\ ~conflictModal
    /\ currentConflictData = NoConflict
    /\ \E i \in 1..Len(notifications) :
           /\ notifications[i].event_type = "conflict_detected"
           /\ notifications[i].data.new_memory # NoMemory
           /\ notifications[i].data.existing_memory = NoMemory

\* C33: when the last timer of a citation whose target is a record of the
\* cache fires, the ledger view shows all records and the card of the
\* target is highlighted, whatever the status of the record; and the
\* ledger fetch of the view switch, when it resolves, takes no highlight
\* away.
C33_CitationHighlights ==
    [][/\ \A f \in Suspended("navigateToMemory", "t50") :
              /\ NavigateHighlights /\ Consumed(f)
              /\ ledger # NoLedger
              /\ \E i \in 1..Len(AllMemories(ledger)) :
                     AllMemories(ledger)[i] = f.targetMemory
              => /\ currentView' = "ledger"
                 /\ ledgerFilter' = "all"
                 /\ highlighted' = f.targetMemory.id
       /\ LoadLedgerResolves /\ highlighted # <<>>
              => highlighted' = highlighted]_vars

\* C34: the modal is opened for a candidate only from an entry that was
\* neither dismissed nor resolved, that is, one that still blinks.
C34_ResolvedEntryIsInert ==
    [][OpenConflictModal /\ conflictModal' /\ ~conflictModal
           => \E i \in ConflictEntries(notifications) :
                  /\ notifications[i].data = currentConflictData'
                  /\ notifications[i].blink]_vars

\* C35: the step in which the project fetched by a stats refresh arrives,
\* after a send or after the end of a session, leaves the selected project
\* as it was.
C35_RefreshKeepsSelection ==
    [][StatsResolves \/ EndGetResolves
           => currentProject' = currentProject]_vars

\* C36: a work session that is held is a session of the selected project.
C36_SessionOfSelectedProject ==
    workSession # NoSession => workSession.project = currentProject

\* C37: while a session is held the message list starts with the system
\* message of the session's task description; while none is held the list
\* is empty.
C37_ListMatchesSession ==
    IF workSession # NoSession
    THEN /\ workMessages # <<>>
         /\ workMessages[1] = SystemMessage(workSession.task_description)
    ELSE workMessages = <<>>

\* C38: the answer of a send, or its failure message, is appended to the
\* list of a session that is held only when the send was issued in that
\* session.
C38_AnswerInItsSession ==
    [][\A f \in Suspended("sendWorkMessage", "send") :
           /\ WorkSendResolves /\ Consumed(f)
           /\ workSession # NoSession
           /\ workMessages' # workMessages
           => f.session = workSession]_vars

\* C39: a request of resolveConflict is issued for the project whose
\* channel delivered the conflict: every entry of the log that holds the
\* candidate is an entry of the selected project.
C39_RequestToProjectOfConflict ==
    [][ResolveConflict /\ flows' # flows
           => \A i \in ConflictEntries(notifications) :
                  notifications[i].data = currentConflictData
                      => notifications[i].project = currentProject]_vars

\* C40: an end call is issued for a session only when no end call for that
\* session is in flight.
C40_OneEndPerSession ==
    [][EndWorkSession /\ flows' # flows
           => \A f \in Suspended("endWorkSession", "end") :
                  f.session # workSession]_vars

====
